---- MODULE Spec2Model ----
(***************************************************************************)
(* Retirement projection engine (calculations.py).                         *)
(*                                                                         *)
(* Numbers.  The program computes in binary floating point.  Here money is *)
(* an integer number of units and a rate is an integer number of           *)
(* 1/RateDen parts (0.5 is RateDen \div 2); every product or quotient the  *)
(* program forms is formed here too and rounded to the nearest unit, the   *)
(* way a float operation rounds to the nearest representable value.        *)
(* IRS divisors are kept in tenths (27.4 is 274).                           *)
(***************************************************************************)
EXTENDS Integers, Sequences, FiniteSets, TLC

\* ------------------------------------------------------------------ bounds

\* Longest horizon explored: max_age - current_age <= MaxYears.
MaxYears == 2

\* Resolution of a rate: a rate r stands for r / RateDen.
RateDen == 10

\* ----------------------------------------------------------- arithmetic

\* a / b for b > 0, rounded to nearest (ties away from zero).
RoundDiv(a, b) ==
    IF a >= 0 THEN (2 * a + b) \div (2 * b)
    ELSE -((2 * (-a) + b) \div (2 * b))

\* x * (r / RateDen)
MulRate(x, r) == RoundDiv(x * r, RateDen)

RECURSIVE IntPow(_, _)
IntPow(b, n) == IF n <= 0 THEN 1 ELSE b * IntPow(b, n - 1)

\* x * ((1 + rate) ** n), the power formed first, one rounding of the product.
Compound(x, rate, n) == RoundDiv(x * IntPow(RateDen + rate, n), IntPow(RateDen, n))

Min2(a, b) == IF a <= b THEN a ELSE b
Max2(a, b) == IF a >= b THEN a ELSE b

\* sum(d.values()) for a dict d kept as a function over names
RECURSIVE SumOver(_, _)
SumOver(f, S) ==
    IF S = {} THEN 0
    ELSE LET x == CHOOSE x \in S : TRUE IN f[x] + SumOver(f, S \ {x})

\* ------------------------------------------------------------ rule tables

AccountTypes == {"401k", "traditional_ira", "roth_ira", "taxable_brokerage"}

\* CONTRIBUTION_STOP_RULES: kind "work_end_age", "age" (an integer ceiling) or
\* "none" (the value None).
CONTRIBUTION_STOP_RULES ==
    [t \in AccountTypes |->
        CASE t = "401k" -> [kind |-> "work_end_age", age |-> 0]
          [] t = "traditional_ira" -> [kind |-> "age", age |-> 73]
          [] t = "roth_ira" -> [kind |-> "none", age |-> 0]
          [] t = "taxable_brokerage" -> [kind |-> "none", age |-> 0]]

\* RMD_LIFETIME_TABLE, age -> divisor in tenths.
RMD_LIFETIME_TABLE ==
    [a \in 70..120 |->
        CASE a = 70 -> 274 [] a = 71 -> 265 [] a = 72 -> 256
          [] a = 73 -> 265 [] a = 74 -> 255 [] a = 75 -> 246 [] a = 76 -> 237
          [] a = 77 -> 229 [] a = 78 -> 220 [] a = 79 -> 211 [] a = 80 -> 202
          [] a = 81 -> 194 [] a = 82 -> 185 [] a = 83 -> 177 [] a = 84 -> 168
          [] a = 85 -> 160 [] a = 86 -> 152 [] a = 87 -> 144 [] a = 88 -> 137
          [] a = 89 -> 129 [] a = 90 -> 122 [] a = 91 -> 115 [] a = 92 -> 108
          [] a = 93 -> 101 [] a = 94 -> 95 [] a = 95 -> 89 [] a = 96 -> 84
          [] a = 97 -> 78 [] a = 98 -> 73 [] a = 99 -> 68 [] a = 100 -> 64
          [] a = 101 -> 60 [] a = 102 -> 56 [] a = 103 -> 52 [] a = 104 -> 49
          [] a = 105 -> 46 [] a = 106 -> 43 [] a = 107 -> 41 [] a = 108 -> 39
          [] a = 109 -> 37 [] a = 110 -> 35 [] a = 111 -> 34 [] a = 112 -> 33
          [] a = 113 -> 31 [] a = 114 -> 30 [] a = 115 -> 29 [] a = 116 -> 28
          [] a = 117 -> 27 [] a = 118 -> 25 [] a = 119 -> 23 [] a = 120 -> 20]

RMD_ACCOUNT_TYPES == {"401k", "traditional_ira"}

\* ------------------------------------------------------- pure functions

\* get_rmd_starting_age with its second bracket ending a year early
get_rmd_starting_age_early(birth_year) ==
    IF birth_year < 1949 THEN 70
    ELSE IF birth_year < 1950 THEN 72
    ELSE IF birth_year <= 1959 THEN 73
    ELSE 75

get_rmd_starting_age(birth_year) ==
    IF birth_year < 1949 THEN 70
    ELSE IF birth_year <= 1950 THEN 72
    ELSE IF birth_year <= 1959 THEN 73
    ELSE 75

\* RMD_LIFETIME_TABLE.get(age, 2.0), in tenths
RmdDivisor(age) ==
    IF age \in DOMAIN RMD_LIFETIME_TABLE THEN RMD_LIFETIME_TABLE[age] ELSE 20

calculate_rmd_amount(account_balance, age, rmd_starting_age_) ==
    IF age < rmd_starting_age_ THEN 0
    ELSE RoundDiv(account_balance * 10, RmdDivisor(age))

\* can_contribute letting continue_post_retirement override the work_end_age rule
can_contribute_flag_overrides(account_type, age, work_end_age_, continue_post_retirement) ==
    LET rule == CONTRIBUTION_STOP_RULES[account_type] IN
    IF rule.kind = "none" THEN TRUE
    ELSE IF rule.kind = "work_end_age" THEN age < work_end_age_ \/ continue_post_retirement
    ELSE IF continue_post_retirement THEN age < rule.age
    ELSE age < work_end_age_ /\ age < rule.age

\* can_contribute with the ceiling age itself still allowed
can_contribute_ceiling_inclusive(account_type, age, work_end_age_, continue_post_retirement) ==
    LET rule == CONTRIBUTION_STOP_RULES[account_type] IN
    IF rule.kind = "none" THEN TRUE
    ELSE IF rule.kind = "work_end_age" THEN age < work_end_age_
    ELSE IF continue_post_retirement THEN age <= rule.age
    ELSE age < work_end_age_ /\ age <= rule.age

can_contribute(account_type, age, work_end_age_, continue_post_retirement) ==
    LET rule == CONTRIBUTION_STOP_RULES[account_type] IN
    IF rule.kind = "none" THEN TRUE
    ELSE IF rule.kind = "work_end_age" THEN age < work_end_age_
    ELSE IF continue_post_retirement THEN age < rule.age
    ELSE age < work_end_age_ /\ age < rule.age

\* ------------------------------------------------------------------ state

VARIABLES
    \* arguments of run_comprehensive_projection
    current_age, work_end_age, current_work_income,
    ss_start_age, ss_monthly_benefit, accounts, expense_categories,
    ss_cola, max_flex_reduction, events, inflation_rate, max_age,
    \* its locals that live across years
    rmd_starting_age, sorted_accounts, account_balances, year_offset, results,
    \* the locals of the year in progress
    loc,
    \* position in the function body
    pc,
    \* a direct call of one of the pure functions: its arguments and its result
    call, ret,
    \* analyze_retirement_plan's argument target_age and the dictionary it returns
    analysis

args == <<current_age, work_end_age, current_work_income, ss_start_age,
          ss_monthly_benefit, accounts, expense_categories, ss_cola,
          max_flex_reduction, events, inflation_rate, max_age>>

setup == <<rmd_starting_age, sorted_accounts>>

vars == <<args, setup, account_balances, year_offset, results, loc, pc, call, ret,
          analysis>>

NoValue == "none"

Names(accs) == {accs[i].name : i \in DOMAIN accs}

\* sorted(accounts, key=lambda a: a.priority): stable
RECURSIVE InsertByPriority(_, _)
InsertByPriority(sorted, a) ==
    IF sorted = <<>> THEN <<a>>
    ELSE IF a.priority < Head(sorted).priority THEN <<a>> \o sorted
    ELSE <<Head(sorted)>> \o InsertByPriority(Tail(sorted), a)

RECURSIVE SortedByPriority(_)
SortedByPriority(accs) ==
    IF accs = <<>> THEN <<>>
    ELSE InsertByPriority(SortedByPriority(SubSeq(accs, 1, Len(accs) - 1)),
                          accs[Len(accs)])

\* sum(e.annual_amount for e in expense_categories if e.category_type == kind)
RECURSIVE ExpensesBase(_, _)
ExpensesBase(cats, kind) ==
    IF cats = <<>> THEN 0
    ELSE (IF Head(cats).category_type = kind THEN Head(cats).annual_amount ELSE 0)
         + ExpensesBase(Tail(cats), kind)

core_expenses_base == ExpensesBase(expense_categories, "CORE")
flex_expenses_base == ExpensesBase(expense_categories, "FLEX")

\* the horizon without its last year
projection_years_exclusive == max_age - current_age

projection_years == max_age - current_age + 1

current_year == 2026

Zero(S) == [n \in S |-> 0]

\* The year's locals before the year's first statement.
BlankLoc ==
    [age |-> 0, year |-> 0,
     work_income |-> 0, ss_income |-> 0, total_income |-> 0,
     core_expenses |-> 0, flex_expenses_full |-> 0,
     planned |-> Zero(Names(accounts)), total_planned |-> 0,
     flex_expenses_actual |-> 0, flex_multiplier |-> RateDen,
     total_contributions |-> 0, contributions |-> Zero(Names(accounts)),
     contribution_shortfall |-> 0,
     contribution_withdrawals |-> Zero(Names(accounts)),
     rmds |-> Zero(Names(accounts)), total_rmds |-> 0,
     total_expenses_actual |-> 0, surplus_deficit |-> 0,
     withdrawals |-> Zero(Names(accounts)), total_withdrawals |-> 0,
     returns |-> Zero(Names(accounts)),
     event_amount |-> 0, event_description |-> "", event_account |-> ""]

\* ------------------------------------------------- run_comprehensive_projection

\* Lines 201-219: the statements before the loop.
Setup ==
    /\ pc = "setup"
    /\ rmd_starting_age' = get_rmd_starting_age(current_year - current_age)
    /\ sorted_accounts' = SortedByPriority(accounts)
    /\ account_balances' = [n \in Names(accounts) |->
           (CHOOSE a \in {accounts[i] : i \in DOMAIN accounts} : a.name = n).balance]
    /\ year_offset' = 0
    /\ results' = <<>>
    /\ loc' = BlankLoc
    /\ pc' = "loop"
    /\ UNCHANGED <<args, call, ret, analysis>>

\* planned[acc.name] for the year
Planned(age) ==
    [n \in Names(accounts) |->
        LET acc == CHOOSE a \in {accounts[i] : i \in DOMAIN accounts} : a.name = n IN
        IF can_contribute(acc.account_type, age, work_end_age,
                          acc.continue_post_retirement)
        THEN acc.planned_contribution ELSE 0]

\* work income paid through the year of work_end_age itself
WorkIncomeThroughWorkEnd(age, offset) ==
    IF age <= work_end_age THEN Compound(current_work_income, inflation_rate, offset)
    ELSE 0

WorkIncome(age, offset) ==
    IF age < work_end_age THEN Compound(current_work_income, inflation_rate, offset)
    ELSE 0

SsIncome(age) ==
    IF age >= ss_start_age
    THEN Compound(ss_monthly_benefit * 12, ss_cola, age - ss_start_age)
    ELSE 0

\* The loop header and the year's income, expenses and planned contributions.
YearStart ==
    /\ pc = "loop"
    /\ year_offset < projection_years
    /\ LET age == current_age + year_offset
           work_income == WorkIncome(age, year_offset)
           ss_income == SsIncome(age)
           planned == Planned(age)
       IN loc' = [BlankLoc EXCEPT
               !.age = age,
               !.year = current_year + year_offset,
               !.work_income = work_income,
               !.ss_income = ss_income,
               !.total_income = work_income + ss_income,
               !.core_expenses = Compound(core_expenses_base, inflation_rate, year_offset),
               !.flex_expenses_full = Compound(flex_expenses_base, inflation_rate, year_offset),
               !.planned = planned,
               !.total_planned = SumOver(planned, Names(accounts))]
    /\ pc' = "fund"
    /\ UNCHANGED <<args, setup, account_balances, year_offset, results, call, ret, analysis>>

\* range(projection_years) is exhausted: return.
LoopExit ==
    /\ pc = "loop"
    /\ year_offset >= projection_years
    /\ pc' = "done"
    /\ UNCHANGED <<args, setup, account_balances, year_offset, results, loc, call, ret, analysis>>

available_for_all == loc.total_income - loc.core_expenses

\* the floor taken as the reducible share instead of the share that is kept
FlexFloorSwapped == MulRate(loc.flex_expenses_full, max_flex_reduction)

\* flex_expenses_full * (1 - max_flex_reduction)
FlexFloor == MulRate(loc.flex_expenses_full, RateDen - max_flex_reduction)

\* the money shared equally instead of in proportion to the planned amounts
EvenSplit(money) ==
    [n \in Names(accounts) |-> RoundDiv(money, Len(accounts))]

\* contributions[acc_name] = money * (amt / total_planned)
Proportional(money) ==
    [n \in Names(accounts) |-> RoundDiv(money * loc.planned[n], loc.total_planned)]

\* Lines 274-279.
FundCaseA ==
    /\ pc = "fund"
    /\ available_for_all >= loc.flex_expenses_full + loc.total_planned
    /\ loc' = [loc EXCEPT
           !.flex_expenses_actual = loc.flex_expenses_full,
           !.flex_multiplier = RateDen,
           !.contributions = loc.planned,
           !.total_contributions = loc.total_planned]
    /\ pc' = "topup"
    /\ UNCHANGED <<args, setup, account_balances, year_offset, results, call, ret, analysis>>

\* flex_multiplier of lines 289-290
FlexMultiplierB(flex_expenses_actual) ==
    IF loc.flex_expenses_full > 0
    THEN RoundDiv(flex_expenses_actual * RateDen, loc.flex_expenses_full)
    ELSE RateDen

\* Lines 281-295: flex is reduced and the reduction funds every contribution.
FundCaseBFull ==
    /\ pc = "fund"
    /\ ~(available_for_all >= loc.flex_expenses_full + loc.total_planned)
    /\ available_for_all >= loc.total_planned
    /\ LET money_for_flex == available_for_all - loc.total_planned
           flex_expenses_actual == Max2(money_for_flex, FlexFloor)
       IN /\ money_for_flex >= FlexFloor
          /\ loc' = [loc EXCEPT
                 !.flex_expenses_actual = flex_expenses_actual,
                 !.flex_multiplier = FlexMultiplierB(flex_expenses_actual),
                 !.contributions = loc.planned,
                 !.total_contributions = loc.total_planned]
    /\ pc' = "topup"
    /\ UNCHANGED <<args, setup, account_balances, year_offset, results, call, ret, analysis>>

\* Lines 296-311: the largest flex reduction is not enough.
FundCaseBPartial ==
    /\ pc = "fund"
    /\ ~(available_for_all >= loc.flex_expenses_full + loc.total_planned)
    /\ available_for_all >= loc.total_planned
    /\ LET money_for_flex == available_for_all - loc.total_planned
           money_after_min_flex == available_for_all - FlexFloor
       IN /\ ~(money_for_flex >= FlexFloor)
          /\ loc' = IF loc.total_planned > 0
                THEN [loc EXCEPT
                    !.flex_expenses_actual = FlexFloor,
                    !.flex_multiplier = RateDen - max_flex_reduction,
                    !.contributions = Proportional(money_after_min_flex),
                    !.total_contributions = money_after_min_flex,
                    !.contribution_shortfall = loc.total_planned - money_after_min_flex]
                ELSE [loc EXCEPT
                    !.flex_expenses_actual = FlexFloor,
                    !.flex_multiplier = RateDen - max_flex_reduction,
                    !.contributions = Zero(Names(accounts))]
    /\ pc' = "topup"
    /\ UNCHANGED <<args, setup, account_balances, year_offset, results, call, ret, analysis>>

\* Lines 313-332.
FundCaseC ==
    /\ pc = "fund"
    /\ ~(available_for_all >= loc.flex_expenses_full + loc.total_planned)
    /\ ~(available_for_all >= loc.total_planned)
    /\ LET money_after_min_flex == available_for_all - FlexFloor
           flex_multiplier == IF loc.flex_expenses_full > 0
                              THEN RateDen - max_flex_reduction ELSE RateDen
       IN loc' = IF money_after_min_flex > 0 /\ loc.total_planned > 0
                THEN [loc EXCEPT
                    !.flex_expenses_actual = FlexFloor,
                    !.flex_multiplier = flex_multiplier,
                    !.contributions = Proportional(money_after_min_flex),
                    !.total_contributions = money_after_min_flex,
                    !.contribution_shortfall = loc.total_planned - money_after_min_flex]
                ELSE [loc EXCEPT
                    !.flex_expenses_actual = FlexFloor,
                    !.flex_multiplier = flex_multiplier,
                    !.contributions = Zero(Names(accounts)),
                    !.contribution_shortfall = loc.total_planned]
    /\ pc' = "topup"
    /\ UNCHANGED <<args, setup, account_balances, year_offset, results, call, ret, analysis>>

\* Lines 357-378: the sources of one account's top-up, in priority order.
\* s carries account_balances, contribution_withdrawals, contributions,
\* total_contributions, remaining_shortfall and this_account_shortfall.
RECURSIVE FundFromSources(_, _, _)
FundFromSources(acc_name, sources, s) ==
    IF sources = <<>> \/ s.this_account_shortfall <= 0 THEN s
    ELSE LET source_acc == Head(sources) IN
         IF source_acc.name = acc_name
         THEN FundFromSources(acc_name, Tail(sources), s)
         ELSE LET available_in_source == s.account_balances[source_acc.name]
                  withdrawal_amount == Min2(s.this_account_shortfall, available_in_source)
              IN IF withdrawal_amount > 0
                 THEN FundFromSources(acc_name, Tail(sources),
                        [s EXCEPT
                           !.contribution_withdrawals[source_acc.name] = @ + withdrawal_amount,
                           !.account_balances[source_acc.name] = @ - withdrawal_amount,
                           !.contributions[acc_name] = @ + withdrawal_amount,
                           !.total_contributions = @ + withdrawal_amount,
                           !.this_account_shortfall = @ - withdrawal_amount,
                           !.remaining_shortfall = @ - withdrawal_amount])
                 ELSE FundFromSources(acc_name, Tail(sources), s)

\* Lines 345-378: every account in planned's (the input list's) order.
RECURSIVE FundShortfalls(_, _)
FundShortfalls(accs, s) ==
    IF accs = <<>> THEN s
    ELSE LET acc_name == Head(accs).name
             planned_amt == loc.planned[acc_name]
             this_account_shortfall == planned_amt - s.contributions[acc_name]
         IN IF planned_amt = 0 \/ this_account_shortfall <= 0
            THEN FundShortfalls(Tail(accs), s)
            ELSE FundShortfalls(Tail(accs),
                   FundFromSources(acc_name, sorted_accounts,
                       [s EXCEPT !.this_account_shortfall = this_account_shortfall]))

\* Lines 339-381 when the income waterfall left a shortfall.
TopUp ==
    /\ pc = "topup"
    /\ loc.contribution_shortfall > 0 /\ loc.total_planned > 0
    /\ LET s == FundShortfalls(accounts,
                  [account_balances |-> account_balances,
                   contribution_withdrawals |-> Zero(Names(accounts)),
                   contributions |-> loc.contributions,
                   total_contributions |-> loc.total_contributions,
                   remaining_shortfall |-> loc.contribution_shortfall,
                   this_account_shortfall |-> 0])
       IN /\ account_balances' = s.account_balances
          /\ loc' = [loc EXCEPT
                 !.contribution_withdrawals = s.contribution_withdrawals,
                 !.contributions = s.contributions,
                 !.total_contributions = s.total_contributions,
                 !.contribution_shortfall = s.remaining_shortfall]
    /\ pc' = "apply"
    /\ UNCHANGED <<args, setup, year_offset, results, call, ret, analysis>>

\* Lines 339-341 when there is nothing to top up.
TopUpSkip ==
    /\ pc = "topup"
    /\ ~(loc.contribution_shortfall > 0 /\ loc.total_planned > 0)
    /\ loc' = [loc EXCEPT !.contribution_withdrawals = Zero(Names(accounts))]
    /\ pc' = "apply"
    /\ UNCHANGED <<args, setup, account_balances, year_offset, results, call, ret, analysis>>

\* Lines 383-385.
ApplyContributions ==
    /\ pc = "apply"
    /\ account_balances' =
           [n \in Names(accounts) |-> account_balances[n] + loc.contributions[n]]
    /\ pc' = "rmd"
    /\ UNCHANGED <<args, setup, year_offset, results, loc, call, ret, analysis>>

AccountNamed(n) == CHOOSE a \in {accounts[i] : i \in DOMAIN accounts} : a.name = n

\* actual_rmd of lines 397-407 for one account
ActualRmd(n, age) ==
    IF AccountNamed(n).account_type \in RMD_ACCOUNT_TYPES
    THEN Min2(calculate_rmd_amount(account_balances[n], age, rmd_starting_age),
              account_balances[n])
    ELSE 0

\* Lines 393-407.
ApplyRMDs ==
    /\ pc = "rmd"
    /\ LET rmds == [n \in Names(accounts) |-> ActualRmd(n, loc.age)] IN
       /\ account_balances' = [n \in Names(accounts) |-> account_balances[n] - rmds[n]]
       /\ loc' = [loc EXCEPT !.rmds = rmds,
                             !.total_rmds = SumOver(rmds, Names(accounts))]
    /\ pc' = "deficit"
    /\ UNCHANGED <<args, setup, year_offset, results, call, ret, analysis>>

total_expenses_actual ==
    loc.core_expenses + loc.flex_expenses_actual + loc.total_contributions

surplus_deficit == loc.total_income + loc.total_rmds - total_expenses_actual

\* Lines 425-435. s carries account_balances, withdrawals, total_withdrawals
\* and deficit_to_cover.
RECURSIVE CoverDeficit(_, _)
CoverDeficit(accs, s) ==
    IF accs = <<>> THEN s
    ELSE LET acc == Head(accs) IN
         IF s.deficit_to_cover <= 0
         THEN CoverDeficit(Tail(accs), [s EXCEPT !.withdrawals[acc.name] = 0])
         ELSE LET available == s.account_balances[acc.name]
                  withdrawal == Min2(s.deficit_to_cover, available)
              IN CoverDeficit(Tail(accs),
                    [s EXCEPT !.withdrawals[acc.name] = withdrawal,
                              !.account_balances[acc.name] = @ - withdrawal,
                              !.total_withdrawals = @ + withdrawal,
                              !.deficit_to_cover = @ - withdrawal])

\* Lines 409-435: the year is in deficit.
WithdrawDeficit ==
    /\ pc = "deficit"
    /\ surplus_deficit < 0
    /\ LET s == CoverDeficit(sorted_accounts,
                  [account_balances |-> account_balances,
                   withdrawals |-> Zero(Names(accounts)),
                   total_withdrawals |-> 0,
                   deficit_to_cover |-> -surplus_deficit])
       IN /\ account_balances' = s.account_balances
          /\ loc' = [loc EXCEPT
                 !.total_expenses_actual = total_expenses_actual,
                 !.surplus_deficit = surplus_deficit,
                 !.withdrawals = s.withdrawals,
                 !.total_withdrawals = s.total_withdrawals]
    /\ pc' = "returns"
    /\ UNCHANGED <<args, setup, year_offset, results, call, ret, analysis>>

\* Lines 409-422, 436-438: no deficit.
NoDeficit ==
    /\ pc = "deficit"
    /\ ~(surplus_deficit < 0)
    /\ loc' = [loc EXCEPT
           !.total_expenses_actual = total_expenses_actual,
           !.surplus_deficit = surplus_deficit,
           !.withdrawals = Zero(Names(accounts)),
           !.total_withdrawals = 0]
    /\ pc' = "returns"
    /\ UNCHANGED <<args, setup, account_balances, year_offset, results, call, ret, analysis>>

\* the return figured on the balance as it stood before the deficit withdrawal
AnnualReturnBeforeWithdrawal(n) ==
    MulRate(account_balances[n] + loc.withdrawals[n], AccountNamed(n).annual_return)

\* the return figured on the balance as the year's event will leave it
AnnualReturnAfterEvent(n) ==
    LET hits == {i \in DOMAIN events : events[i].year = loc.year}
        amount == IF hits = {} THEN 0
                  ELSE LET first == CHOOSE i \in hits : \A j \in hits : i <= j
                       IN IF events[first].account_name = n THEN events[first].amount
                          ELSE 0
    IN MulRate(account_balances[n] - amount, AccountNamed(n).annual_return)

\* account_balances[acc.name] * acc.annual_return
AnnualReturn(n) == MulRate(account_balances[n], AccountNamed(n).annual_return)

\* Lines 442-446.
InvestmentReturns ==
    /\ pc = "returns"
    /\ LET returns == [n \in Names(accounts) |-> AnnualReturn(n)] IN
       /\ account_balances' = [n \in Names(accounts) |-> account_balances[n] + returns[n]]
       /\ loc' = [loc EXCEPT !.returns = returns]
    /\ pc' = "events"
    /\ UNCHANGED <<args, setup, year_offset, results, call, ret, analysis>>

\* the last event of the year, 0 when there is none
LastEvent(year) ==
    IF \E i \in DOMAIN events : events[i].year = year
    THEN CHOOSE i \in DOMAIN events :
            /\ events[i].year = year
            /\ \A j \in DOMAIN events : events[j].year = year => j <= i
    ELSE 0

\* Lines 455-465: the first event of the year, 0 (no index) when there is none.
FirstEvent(year) ==
    IF \E i \in DOMAIN events : events[i].year = year
    THEN CHOOSE i \in DOMAIN events :
            /\ events[i].year = year
            /\ \A j \in DOMAIN events : events[j].year = year => i <= j
    ELSE 0

\* account_balances after the event's line 463-464
AfterEvent(event) ==
    IF event.account_name \in DOMAIN account_balances
    THEN [account_balances EXCEPT ![event.account_name] = @ - event.amount]
    ELSE account_balances

\* Lines 452-465.
OneTimeEvents ==
    /\ pc = "events"
    /\ LET i == FirstEvent(loc.year) IN
       IF i = 0
       THEN UNCHANGED <<account_balances, loc>>
       ELSE /\ loc' = [loc EXCEPT !.event_amount = events[i].amount,
                                  !.event_description = events[i].description,
                                  !.event_account = events[i].account_name]
            /\ account_balances' = AfterEvent(events[i])
    /\ pc' = "record"
    /\ UNCHANGED <<args, setup, year_offset, results, call, ret, analysis>>

total_portfolio == SumOver(account_balances, Names(accounts))

portfolio_depleted == total_portfolio <= 0

\* Lines 474-504.
year_data ==
    [year |-> loc.year, age |-> loc.age,
     work_income |-> loc.work_income, ss_income |-> loc.ss_income,
     total_income |-> loc.total_income,
     core_expenses |-> loc.core_expenses,
     flex_expenses_full |-> loc.flex_expenses_full,
     flex_multiplier |-> loc.flex_multiplier,
     flex_expenses_actual |-> loc.flex_expenses_actual,
     event_amount |-> loc.event_amount,
     event_description |-> loc.event_description,
     event_account |-> loc.event_account,
     total_expenses |-> loc.total_expenses_actual,
     surplus_deficit |-> loc.surplus_deficit,
     total_contributions |-> loc.total_contributions,
     contribution_shortfall |-> loc.contribution_shortfall,
     total_rmds |-> loc.total_rmds,
     total_withdrawals |-> loc.total_withdrawals,
     total_portfolio |-> total_portfolio,
     portfolio_depleted |-> portfolio_depleted,
     balance |-> account_balances,
     contribution |-> loc.contributions,
     withdrawal |-> loc.withdrawals,
     contribution_withdrawal |-> loc.contribution_withdrawals,
     rmd |-> loc.rmds,
     return |-> loc.returns]

\* the break left out
BreaksLoopNever == FALSE

\* if portfolio_depleted: break
BreaksLoop == portfolio_depleted

\* Lines 467-509: the row is appended; the loop goes on unless depleted.
RecordYear ==
    /\ pc = "record"
    /\ results' = Append(results, year_data)
    /\ IF BreaksLoop
       THEN pc' = "done" /\ UNCHANGED year_offset
       ELSE pc' = "loop" /\ year_offset' = year_offset + 1
    /\ UNCHANGED <<args, setup, account_balances, loc, call, ret, analysis>>

\* ------------------------------------------- analyze_retirement_plan

\* > $100/year, line 681
ShortfallNoise == 100

\* > $1000, line 711
WithdrawalNoise == 1000

\* projection_df[projection_df['portfolio_depleted'] == True]
depleted(projection_df) ==
    LET Flagged(row) == row.portfolio_depleted IN SelectSeq(projection_df, Flagged)

\* Lines 612-617; None when no row is flagged.
run_out_age(projection_df) ==
    IF Len(depleted(projection_df)) > 0 THEN depleted(projection_df)[1].age ELSE NoValue

run_out_year(projection_df) ==
    IF Len(depleted(projection_df)) > 0 THEN depleted(projection_df)[1].year ELSE NoValue

\* "run_out_age is None": the else branch of line 612 was taken
run_out_age_is_None(projection_df) == Len(depleted(projection_df)) = 0

\* Lines 620-625.
cushion_years(projection_df, target_age) ==
    IF run_out_age_is_None(projection_df)
    THEN projection_df[Len(projection_df)].age - target_age
    ELSE run_out_age(projection_df) - target_age

\* the status test with the target year itself counted as a failure
status_strict(projection_df, target_age) ==
    IF run_out_age_is_None(projection_df) \/ run_out_age(projection_df) > target_age
    THEN "ON TRACK"
    ELSE "AT RISK"

\* Lines 628-631.
status(projection_df, target_age) ==
    IF run_out_age_is_None(projection_df) \/ run_out_age(projection_df) >= target_age
    THEN "ON TRACK"
    ELSE "AT RISK"

\* Lines 631-635: the warning appended in the AT RISK branch.
depletion_warnings(projection_df, target_age) ==
    IF status(projection_df, target_age) = "AT RISK"
    THEN <<[kind |-> "depletion",
            run_out_age |-> run_out_age(projection_df),
            years_before_target |-> target_age - run_out_age(projection_df)]>>
    ELSE <<>>

\* Sum of one column of a frame.
RECURSIVE ColumnSum(_, _)
ColumnSum(df, column) ==
    IF df = <<>> THEN 0 ELSE df[1][column] + ColumnSum(Tail(df), column)

\* The smallest value of one column of a non-empty frame.
RECURSIVE ColumnMin(_, _)
ColumnMin(df, column) ==
    IF Len(df) = 1 THEN df[1][column]
    ELSE Min2(df[1][column], ColumnMin(Tail(df), column))

\* projection_df[projection_df['flex_multiplier'] < 1.0]
reduced_years(projection_df) ==
    LET Reduced(row) == row.flex_multiplier < RateDen IN SelectSeq(projection_df, Reduced)

\* projection_df['flex_multiplier'].mean() < 0.8, the mean being sum / count
avg_flex_multiplier_low(projection_df) ==
    5 * ColumnSum(projection_df, "flex_multiplier") < 4 * RateDen * Len(projection_df)

\* the value at the end of the projection taken as the baseline
last_portfolio(projection_df) == projection_df[Len(projection_df)].total_portfolio

\* projection_df.iloc[0]['total_portfolio']
initial_portfolio(projection_df) == projection_df[1].total_portfolio

\* Lines 649-651: portfolio_growth_factor < 0.8, the factor being
\* mean(total_portfolio of the reduced years) / initial_portfolio when
\* initial_portfolio > 0 and 0 otherwise.
portfolio_growth_factor_low(projection_df) ==
    IF initial_portfolio(projection_df) > 0
    THEN 5 * ColumnSum(reduced_years(projection_df), "total_portfolio")
            < 4 * Len(reduced_years(projection_df)) * initial_portfolio(projection_df)
    ELSE TRUE

\* Line 654.
portfolio_is_struggling(projection_df, target_age) ==
    \/ portfolio_growth_factor_low(projection_df)
    \/ status(projection_df, target_age) = "AT RISK"

\* Lines 639-675.
flex_warnings(projection_df, target_age) ==
    IF /\ avg_flex_multiplier_low(projection_df)
       /\ Len(reduced_years(projection_df)) > 0
       /\ portfolio_is_struggling(projection_df, target_age)
    THEN LET reduced == reduced_years(projection_df) IN
         <<[kind |-> "flex",
            min_multiplier |-> ColumnMin(reduced, "flex_multiplier"),
            first_reduction_age |-> reduced[1].age,
            last_reduction_age |-> reduced[Len(reduced)].age,
            num_years_reduced |-> Len(reduced),
            total_planned_flex |-> ColumnSum(projection_df, "flex_expenses_full"),
            total_actual_flex |-> ColumnSum(projection_df, "flex_expenses_actual")]>>
    ELSE <<>>

\* projection_df[projection_df['contribution_shortfall'] > 100]
shortfall_years(projection_df) ==
    LET Short(row) == row.contribution_shortfall > ShortfallNoise
    IN SelectSeq(projection_df, Short)

\* Line 693: shortfall_years.iloc[0]['work_income'] > 0
still_working(projection_df) == shortfall_years(projection_df)[1].work_income > 0

\* Lines 678-702.
shortfall_warnings(projection_df) ==
    LET short == shortfall_years(projection_df) IN
    IF Len(short) > 0 /\ still_working(projection_df)
    THEN <<[kind |-> "shortfall",
            first_shortfall_age |-> short[1].age,
            first_shortfall_year |-> short[1].year,
            total_shortfall |-> ColumnSum(short, "contribution_shortfall"),
            monthly_shortfall |->
                RoundDiv(ColumnSum(short, "contribution_shortfall"), 12 * Len(short)),
            num_years |-> Len(short)]>>
    ELSE <<>>

\* projection_df[projection_df['work_income'] > 0]
working_years(projection_df) ==
    LET Working(row) == row.work_income > 0 IN SelectSeq(projection_df, Working)

\* the working years in which something was withdrawn
withdrawing_years(projection_df) ==
    LET Withdrawing(row) == row.work_income > 0 /\ row.total_withdrawals > 0
    IN SelectSeq(projection_df, Withdrawing)

\* the rows the message counts: len(working_years), line 715
years_reported(projection_df) == working_years(projection_df)

\* Lines 707-716.
withdrawal_warnings(projection_df) ==
    LET working == working_years(projection_df) IN
    IF Len(working) > 0 /\ ColumnSum(working, "total_withdrawals") > WithdrawalNoise
    THEN <<[kind |-> "early_withdrawal",
            total_working_withdrawals |-> ColumnSum(working, "total_withdrawals"),
            num_years |-> Len(years_reported(projection_df))]>>
    ELSE <<>>

\* analyze_retirement_plan(projection_df, target_age), the other parameters at
\* their default None, so that both sustainable_withdrawal_* stay None
\* (line 722).
analyze_retirement_plan(projection_df, target_age) ==
    IF projection_df = <<>>
    THEN [run_out_age |-> NoValue, run_out_year |-> NoValue, cushion_years |-> 0,
          status |-> "AT RISK", warnings |-> <<[kind |-> "no_data"]>>,
          final_balance |-> 0,
          sustainable_withdrawal_annual |-> NoValue,
          sustainable_withdrawal_monthly |-> NoValue]
    ELSE [run_out_age |-> run_out_age(projection_df),
          run_out_year |-> run_out_year(projection_df),
          cushion_years |-> cushion_years(projection_df, target_age),
          status |-> status(projection_df, target_age),
          warnings |-> depletion_warnings(projection_df, target_age)
                       \o flex_warnings(projection_df, target_age)
                       \o shortfall_warnings(projection_df)
                       \o withdrawal_warnings(projection_df),
          final_balance |-> projection_df[Len(projection_df)].total_portfolio,
          sustainable_withdrawal_annual |-> NoValue,
          sustainable_withdrawal_monthly |-> NoValue]

\* Target ages around the simulated horizon.
TargetAges == {current_age, current_age + 1, current_age + MaxYears + 1}

\* The finished projection is handed to analyze_retirement_plan.
Analyze ==
    /\ pc = "done"
    /\ \E target_age \in TargetAges :
        analysis' = [target_age |-> target_age,
                     result |-> analyze_retirement_plan(results, target_age)]
    /\ pc' = "analyzed"
    /\ UNCHANGED <<args, setup, account_balances, year_offset, results, loc, call, ret>>

\* -------------------------------------------------- direct calls

CallCanContribute ==
    /\ pc = "call" /\ call.fn = "can_contribute"
    /\ ret' = can_contribute(call.account_type, call.age, call.work_end_age,
                             call.continue_post_retirement)
    /\ pc' = "return"
    /\ UNCHANGED <<args, setup, account_balances, year_offset, results, loc, call, analysis>>

CallGetRmdStartingAge ==
    /\ pc = "call" /\ call.fn = "get_rmd_starting_age"
    /\ ret' = get_rmd_starting_age(call.birth_year)
    /\ pc' = "return"
    /\ UNCHANGED <<args, setup, account_balances, year_offset, results, loc, call, analysis>>

CallCalculateRmdAmount ==
    /\ pc = "call" /\ call.fn = "calculate_rmd_amount"
    /\ ret' = calculate_rmd_amount(call.account_balance, call.age, call.rmd_starting_age)
    /\ pc' = "return"
    /\ UNCHANGED <<args, setup, account_balances, year_offset, results, loc, call, analysis>>

\* ------------------------------------------------------------------ inputs

Account(name, balance, annual_return, priority, account_type, planned_contribution, continue_post_retirement) ==
    [name |-> name, balance |-> balance, annual_return |-> annual_return,
     priority |-> priority, account_type |-> account_type,
     planned_contribution |-> planned_contribution,
     continue_post_retirement |-> continue_post_retirement]

ExpenseCategory(name, annual_amount, category_type) ==
    [name |-> name, annual_amount |-> annual_amount, category_type |-> category_type]

OneTimeEvent(year, description, amount, account_name) ==
    [year |-> year, description |-> description, amount |-> amount,
     account_name |-> account_name]

\* Plans with one account and plans with two.
AccountLists ==
    {<<Account("A", b, 1, 1, t, p, FALSE)>> :
        b \in {100, 1000}, t \in AccountTypes, p \in {0, 100, 300}}
    \cup
    {<<Account("A", 1000, 1, pr[1], ta, 100, FALSE),
       Account("B", b, 0, pr[2], tb, p, TRUE)>> :
        ta \in {"401k", "roth_ira"}, tb \in {"traditional_ira", "taxable_brokerage"},
        b \in {0, 3000}, p \in {0, 300}, pr \in {<<1, 2>>, <<2, 1>>}}
    \cup
    \* an IRA that is still to be funded after retirement
    {<<Account("A", 1000, 1, 1, "traditional_ira", 300, TRUE)>>}
    \cup
    \* three accounts, listed against their priority order
    {<<Account("A", 1000, 1, 3, "roth_ira", 300, FALSE),
       Account("B", 200, 0, 2, "taxable_brokerage", 0, TRUE),
       Account("C", 3000, 0, 1, "taxable_brokerage", 0, TRUE)>>}
    \cup
    \* equal priorities
    {<<Account("A", 1000, 1, 1, "roth_ira", 100, FALSE),
       Account("B", b, 0, 1, "taxable_brokerage", p, TRUE)>> :
        b \in {0, 3000}, p \in {0, 300}}

ExpenseLists ==
    {<<ExpenseCategory("Housing", 400, "CORE")>>,
     <<ExpenseCategory("Housing", 400, "CORE"), ExpenseCategory("Travel", 400, "FLEX")>>,
     <<ExpenseCategory("Travel", 100, "FLEX"), ExpenseCategory("Food", 200, "CORE"),
       ExpenseCategory("Fun", 100, "FLEX")>>}

EventLists ==
    {<<>>,
     <<OneTimeEvent(2026, "roof", 2000, "A")>>,
     <<OneTimeEvent(2027, "gift", -300, "Z"), OneTimeEvent(2027, "car", 200, "A"),
       OneTimeEvent(2026, "sale", -100, "A"), OneTimeEvent(2026, "fee", 500, "A")>>}

InitProjection ==
    /\ current_age \in {64, 72, 76}
    /\ work_end_age \in {65, 74}
    /\ current_work_income \in {0, 600, 1000}
    /\ ss_start_age = current_age + 1
    /\ ss_monthly_benefit = 25
    /\ accounts \in AccountLists
    /\ expense_categories \in ExpenseLists
    /\ ss_cola = 1
    /\ max_flex_reduction \in {0, RateDen \div 2, RateDen}
    /\ events \in EventLists
    /\ inflation_rate \in {0, 1}
    /\ max_age \in {current_age + MaxYears, current_age - 1}
    \* with max_age < current_age no year is simulated and the inputs below
    \* are never read: one value of each is enough
    /\ max_age < current_age =>
        /\ events = <<>>
        /\ inflation_rate = 0
        /\ max_flex_reduction = 0
        /\ current_work_income = 0
    /\ rmd_starting_age = 0
    /\ sorted_accounts = <<>>
    /\ account_balances = <<>>
    /\ year_offset = 0
    /\ results = <<>>
    /\ loc = BlankLoc
    /\ pc = "setup"
    /\ call = [fn |-> "run_comprehensive_projection"]
    /\ ret = NoValue
    /\ analysis = NoValue

CallArguments ==
    [fn : {"can_contribute"}, account_type : AccountTypes, age : 60..80,
     work_end_age : {65, 75}, continue_post_retirement : BOOLEAN]
    \cup [fn : {"get_rmd_starting_age"}, birth_year : 1940..1970]
    \cup [fn : {"calculate_rmd_amount"}, account_balance : {0, 27400},
          age : 60..125, rmd_starting_age : {60, 70, 72, 73, 75}]

InitCall ==
    /\ call \in CallArguments
    /\ ret = NoValue
    /\ pc = "call"
    /\ current_age = 0 /\ work_end_age = 0 /\ current_work_income = 0
    /\ ss_start_age = 0 /\ ss_monthly_benefit = 0 /\ accounts = <<>>
    /\ expense_categories = <<>> /\ ss_cola = 0 /\ max_flex_reduction = 0
    /\ events = <<>> /\ inflation_rate = 0 /\ max_age = 0
    /\ rmd_starting_age = 0 /\ sorted_accounts = <<>> /\ account_balances = <<>>
    /\ year_offset = 0 /\ results = <<>> /\ loc = BlankLoc
    /\ analysis = NoValue

Init == InitProjection \/ InitCall

Next ==
    \/ Setup
    \/ YearStart
    \/ LoopExit
    \/ FundCaseA
    \/ FundCaseBFull
    \/ FundCaseBPartial
    \/ FundCaseC
    \/ TopUp
    \/ TopUpSkip
    \/ ApplyContributions
    \/ ApplyRMDs
    \/ WithdrawDeficit
    \/ NoDeficit
    \/ InvestmentReturns
    \/ OneTimeEvents
    \/ RecordYear
    \/ Analyze
    \/ CallCanContribute
    \/ CallGetRmdStartingAge
    \/ CallCalculateRmdAmount

Spec == Init /\ [][Next]_vars

\* ------------------------------------------------------------------ claims

Rows == DOMAIN results

IsProjection == call.fn = "run_comprehensive_projection"

Returned(fn) == pc = "return" /\ call.fn = fn

\* C1: the total_portfolio of every emitted row is >= 0.
C1_TotalPortfolioNonNegative ==
    \A i \in Rows : results[i].total_portfolio >= 0

\* C2: every account's balance is >= 0 in every emitted row and after every
\* step of the year.
C2_AccountBalancesNonNegative ==
    /\ \A i \in Rows : \A n \in Names(accounts) : results[i].balance[n] >= 0
    /\ \A n \in DOMAIN account_balances : account_balances[n] >= 0

\* C3: depletion is terminal: portfolio_depleted is true exactly when
\* total_portfolio <= 0, and every row before the last is not depleted and has
\* total_portfolio > 0, so a depleted row is the last row.
C3_DepletionTerminal ==
    \A i \in Rows :
        /\ results[i].portfolio_depleted <=> (results[i].total_portfolio <= 0)
        /\ i < Len(results) =>
              /\ ~results[i].portfolio_depleted
              /\ results[i].total_portfolio > 0

\* C3 witness: a run of two or more rows ended early by a depleted last row.
C3_Witness ==
    /\ pc = "done"
    /\ Len(results) >= 2
    /\ Len(results) < projection_years
    /\ results[Len(results)].portfolio_depleted

\* C4: in every emitted row 1 - max_flex_reduction <= flex_multiplier <= 1.0.
C4_FlexMultiplierRange ==
    \A i \in Rows :
        /\ RateDen - max_flex_reduction <= results[i].flex_multiplier
        /\ results[i].flex_multiplier <= RateDen

\* C4 witness: a row whose flex spending was cut, but by less than the most
\* allowed.
C4_Witness ==
    \E i \in Rows :
        /\ results[i].flex_expenses_full > 0
        /\ results[i].flex_multiplier < RateDen
        /\ results[i].flex_multiplier > RateDen - max_flex_reduction

\* C5: in every row whose total income strictly exceeds core expenses + full
\* flex expenses + the eligible planned contributions, nothing is withdrawn,
\* flex is not cut and every account receives its planned contribution.
C5_NoWithdrawalWhenIncomeCovers ==
    \A i \in Rows :
        LET r == results[i]
            planned == Planned(r.age)
        IN r.total_income > r.core_expenses + r.flex_expenses_full
                            + SumOver(planned, Names(accounts))
           => /\ r.total_withdrawals = 0
              /\ \A n \in Names(accounts) :
                    /\ r.withdrawal[n] = 0
                    /\ r.contribution_withdrawal[n] = 0
                    /\ r.contribution[n] = planned[n]
              /\ r.flex_multiplier = RateDen

\* C6: for roth_ira and taxable_brokerage, can_contribute is true exactly when
\* age < work_end_age or continue_post_retirement.
C6_NoCeilingTypes ==
    (Returned("can_contribute")
       /\ call.account_type \in {"roth_ira", "taxable_brokerage"})
    => (ret <=> (call.age < call.work_end_age \/ call.continue_post_retirement))

\* C7: for 401k, can_contribute is true exactly when age < work_end_age,
\* whatever continue_post_retirement is; and in no year with
\* age >= work_end_age does a 401k account have a planned contribution.
C7_401kStopsAtWorkEnd ==
    /\ (Returned("can_contribute") /\ call.account_type = "401k")
       => (ret <=> call.age < call.work_end_age)
    /\ \A i \in DOMAIN accounts :
          (accounts[i].account_type = "401k" /\ loc.age >= work_end_age)
          => loc.planned[accounts[i].name] = 0

\* C7 witness: a year at or past work_end_age of a plan whose 401k account
\* has a planned contribution.
C7_Witness ==
    /\ pc = "record"
    /\ loc.age >= work_end_age
    /\ \E i \in DOMAIN accounts :
          /\ accounts[i].account_type = "401k"
          /\ accounts[i].planned_contribution > 0

\* C8: for traditional_ira, can_contribute is true exactly when age < 73 and
\* (continue_post_retirement or age < work_end_age).
C8_TraditionalIraCeiling ==
    (Returned("can_contribute") /\ call.account_type = "traditional_ira")
    => (ret <=> (call.age < 73
                 /\ (call.continue_post_retirement \/ call.age < call.work_end_age)))

\* C8 witness: a retired owner below the ceiling who continues contributing.
C8_Witness ==
    /\ Returned("can_contribute")
    /\ call.account_type = "traditional_ira"
    /\ call.continue_post_retirement
    /\ call.age >= call.work_end_age
    /\ call.age = 72
    /\ ret = TRUE

\* The starting ages C9 states.
C9_StatedAge(birth_year) ==
    CASE birth_year < 1949 -> 70
      [] birth_year \in 1949..1950 -> 72
      [] birth_year \in 1951..1959 -> 73
      [] birth_year >= 1960 -> 75

\* C9: get_rmd_starting_age returns 70, 72, 73, 75 by birth-year bracket, and
\* the engine's rmd_starting_age is that of birth year 2026 - current_age in
\* every year of the run.
C9_RmdStartingAge ==
    /\ Returned("get_rmd_starting_age") => ret = C9_StatedAge(call.birth_year)
    /\ (IsProjection /\ pc # "setup")
       => rmd_starting_age = C9_StatedAge(2026 - current_age)

\* C9 witness: a later year of a run whose owner was born in 1950.
C9_Witness ==
    /\ IsProjection
    /\ pc = "record"
    /\ year_offset >= 1
    /\ 2026 - current_age = 1950
    /\ rmd_starting_age = 72

\* The divisor C10 states, in tenths.
C10_StatedDivisor(age) ==
    IF age < 70 THEN 274
    ELSE IF age > 120 THEN 20
    ELSE RMD_LIFETIME_TABLE[age]

\* C10: for every age >= rmd_starting_age the amount is the balance divided by
\* the table entry, by the table's first entry (27.4) below age 70 and by 2.0
\* above age 120.
C10_RmdDivisorFallback ==
    (Returned("calculate_rmd_amount") /\ call.age >= call.rmd_starting_age)
    => ret = RoundDiv(call.account_balance * 10, C10_StatedDivisor(call.age))

\* ---------------------------------------------- one call, to its end

\* The steps of one call of run_comprehensive_projection.
ProjectionStep ==
    \/ Setup \/ YearStart \/ LoopExit
    \/ FundCaseA \/ FundCaseBFull \/ FundCaseBPartial \/ FundCaseC
    \/ TopUp \/ TopUpSkip \/ ApplyContributions \/ ApplyRMDs
    \/ WithdrawDeficit \/ NoDeficit \/ InvestmentReturns \/ OneTimeEvents
    \/ RecordYear

\* The function is straight-line code around a for over
\* range(projection_years): a call that has begun keeps executing.  Every
\* step moves pc.
\* Termination is explored on the plans of a 64-year-old without inflation.
InitTermination ==
    /\ InitProjection
    /\ current_age = 64
    /\ inflation_rate = 0
    /\ max_flex_reduction = RateDen \div 2 \/ max_age < current_age

FairSpec == InitTermination /\ [][ProjectionStep]_vars /\ WF_pc(ProjectionStep)

\* ------------------------------------------------- a second run

\* the engine having written each account's running balance into the input
\* object it was read from
AccountsWithRunningBalances(accs) ==
    [i \in DOMAIN accs |-> [accs[i] EXCEPT !.balance = account_balances[accs[i].name]]]

\* The input objects as the run leaves them: the function reads acc.balance
\* into its own dict (line 213), sorted() builds a new list (line 210), and
\* nothing is assigned to an attribute or an element of an input.
InputsAfterRun(accs) == accs

\* The caller runs the engine again on the same input objects, keeping the
\* first frame for comparison.
Rerun ==
    /\ pc = "done"
    /\ call = [fn |-> "run_comprehensive_projection"]
    /\ call' = [fn |-> "run_comprehensive_projection", first_results |-> results]
    /\ accounts' = InputsAfterRun(accounts)
    /\ rmd_starting_age' = 0
    /\ sorted_accounts' = <<>>
    /\ account_balances' = <<>>
    /\ year_offset' = 0
    /\ results' = <<>>
    /\ loc' = BlankLoc
    /\ pc' = "setup"
    /\ UNCHANGED <<current_age, work_end_age, current_work_income, ss_start_age,
                   ss_monthly_benefit, expense_categories, ss_cola,
                   max_flex_reduction, events, inflation_rate, max_age, ret, analysis>>

RerunNext == ProjectionStep \/ Rerun

\* Two runs in a row on the plans of InitTermination.
RerunSpec == InitTermination /\ [][RerunNext]_vars

\* ------------------------------------------------------------------- C11

\* accounts[i] is visited before accounts[j]: ascending priority, ties in the
\* order of the input list.
C11_Before(i, j) ==
    \/ accounts[i].priority < accounts[j].priority
    \/ accounts[i].priority = accounts[j].priority /\ i < j

C11_Earlier(j) == {i \in DOMAIN accounts : C11_Before(i, j)}

\* C11: in a year with surplus_deficit < 0 the deficit is drawn from the
\* accounts in ascending priority order (ties in list order): each withdrawal
\* is min(remaining deficit, that account's balance), an account has a
\* positive withdrawal only if every account before it was drained to zero,
\* and total_withdrawals = min(deficit, sum of the balances); in a year with
\* surplus_deficit >= 0 every deficit withdrawal is 0.
C11_DeficitWithdrawalOrder ==
    [][pc = "deficit" =>
        LET deficit == -surplus_deficit
            w == loc'.withdrawals
            taken(j) == SumOver([i \in C11_Earlier(j) |-> w[accounts[i].name]],
                                C11_Earlier(j))
        IN IF surplus_deficit < 0
           THEN /\ \A j \in DOMAIN accounts :
                    /\ w[accounts[j].name]
                         = Min2(deficit - taken(j), account_balances[accounts[j].name])
                    /\ w[accounts[j].name] > 0 =>
                         \A i \in C11_Earlier(j) : account_balances'[accounts[i].name] = 0
                /\ loc'.total_withdrawals
                     = Min2(deficit, SumOver(account_balances, Names(accounts)))
           ELSE /\ \A j \in DOMAIN accounts : w[accounts[j].name] = 0
                /\ loc'.total_withdrawals = 0
                /\ account_balances' = account_balances]_vars

\* C11 restricted to years in which no balance is negative when the deficit
\* is covered.
C11_DeficitWithdrawalOrderSolvent ==
    [][(pc = "deficit" /\ \A n \in Names(accounts) : account_balances[n] >= 0) =>
        LET deficit == -surplus_deficit
            w == loc'.withdrawals
            taken(j) == SumOver([i \in C11_Earlier(j) |-> w[accounts[i].name]],
                                C11_Earlier(j))
        IN IF surplus_deficit < 0
           THEN /\ \A j \in DOMAIN accounts :
                    /\ w[accounts[j].name]
                         = Min2(deficit - taken(j), account_balances[accounts[j].name])
                    /\ w[accounts[j].name] > 0 =>
                         \A i \in C11_Earlier(j) : account_balances'[accounts[i].name] = 0
                /\ loc'.total_withdrawals
                     = Min2(deficit, SumOver(account_balances, Names(accounts)))
           ELSE /\ \A j \in DOMAIN accounts : w[accounts[j].name] = 0
                /\ loc'.total_withdrawals = 0
                /\ account_balances' = account_balances]_vars

\* A deficit took the whole of the first account and part of the second.
C11_Witness ==
    /\ pc = "returns"
    /\ Len(accounts) = 2
    /\ loc.surplus_deficit < 0
    /\ \A n \in Names(accounts) : loc.withdrawals[n] > 0
    /\ \E n \in Names(accounts) : account_balances[n] > 0

\* ------------------------------------------------------------------- C12

\* total_planned of the year of row r
C12_TotalPlanned(r) == SumOver(Planned(r.age), Names(accounts))

\* the year of row r is one where cutting flex by at most max_flex_reduction
\* frees enough for every planned contribution, but full flex does not fit
C12_ReducedFlexFundsAll(r) ==
    LET available == r.total_income - r.core_expenses IN
    /\ C12_TotalPlanned(r)
         + MulRate(r.flex_expenses_full, RateDen - max_flex_reduction) <= available
    /\ available < C12_TotalPlanned(r) + r.flex_expenses_full

\* C12: in every year where
\* total_planned + full_flex * (1 - max_flex_reduction) <= available
\*     < total_planned + full_flex,
\* every eligible account receives exactly its planned contribution,
\* flex_expenses_actual = available - total_planned, contribution_shortfall
\* is 0 and total_withdrawals is 0.
C12_CaseBFullFunding ==
    IsProjection =>
        \A i \in Rows :
            LET r == results[i] IN
            C12_ReducedFlexFundsAll(r) =>
                /\ r.contribution = Planned(r.age)
                /\ r.flex_expenses_actual
                     = r.total_income - r.core_expenses - C12_TotalPlanned(r)
                /\ r.contribution_shortfall = 0
                /\ r.total_withdrawals = 0

\* C12 without its last conjunct.
C12_CaseBFundingOnly ==
    IsProjection =>
        \A i \in Rows :
            LET r == results[i] IN
            C12_ReducedFlexFundsAll(r) =>
                /\ r.contribution = Planned(r.age)
                /\ r.flex_expenses_actual
                     = r.total_income - r.core_expenses - C12_TotalPlanned(r)
                /\ r.contribution_shortfall = 0

\* A Case B year: flex cut strictly between its floor and its full amount,
\* with something planned.
C12_Witness ==
    /\ IsProjection
    /\ \E i \in Rows :
        LET r == results[i] IN
        /\ C12_ReducedFlexFundsAll(r)
        /\ C12_TotalPlanned(r) > 0
        /\ r.flex_expenses_actual < r.flex_expenses_full
        /\ r.flex_expenses_actual
             > MulRate(r.flex_expenses_full, RateDen - max_flex_reduction)

\* ------------------------------------------------------------------- C13

\* the balance of account n at the start of the year of row i
C13_StartBalance(i, n) ==
    IF i = 1 THEN AccountNamed(n).balance ELSE results[i - 1].balance[n]

\* start + contribution - contribution_withdrawal - rmd - withdrawal
C13_PreReturnBalance(i, n) ==
    LET r == results[i] IN
    C13_StartBalance(i, n) + r.contribution[n] - r.contribution_withdrawal[n]
        - r.rmd[n] - r.withdrawal[n]

C13_NoEventIn(year) == \A e \in DOMAIN events : events[e].year # year

\* x is a * (rate / RateDen) rounded to the nearest unit
C13_IsProduct(x, a, rate) ==
    LET d == x * RateDen - a * rate IN 2 * d <= RateDen /\ 2 * (-d) <= RateDen

\* C13: for every account, in a year without a one-time event,
\* end_balance = start_balance + contribution - contribution_withdrawal
\*               - rmd - withdrawal + return,
\* where return = annual_return * (start_balance + contribution
\*               - contribution_withdrawal - rmd - withdrawal).
C13_BalanceIdentity ==
    IsProjection =>
        \A i \in Rows : \A n \in Names(accounts) :
            C13_NoEventIn(results[i].year) =>
                /\ results[i].balance[n]
                     = C13_PreReturnBalance(i, n) + results[i].return[n]
                /\ C13_IsProduct(results[i].return[n], C13_PreReturnBalance(i, n),
                                 AccountNamed(n).annual_return)

\* A year without an event in which an account received a contribution, paid
\* a deficit withdrawal and earned a return.
C13_Witness ==
    /\ IsProjection
    /\ \E i \in Rows : \E n \in Names(accounts) :
        /\ C13_NoEventIn(results[i].year)
        /\ results[i].contribution[n] > 0
        /\ results[i].withdrawal[n] > 0
        /\ results[i].return[n] > 0

\* ------------------------------------------------------------------- C14

\* the event applied in the year of row i is a withdrawal from account n, and
\* nothing else moved money into or out of n that year
C14_OnlyEventWithdrawal(i, n) ==
    LET r == results[i] IN
    /\ r.event_account = n
    /\ r.event_amount > 0
    /\ r.contribution[n] = 0
    /\ r.contribution_withdrawal[n] = 0
    /\ r.rmd[n] = 0
    /\ r.withdrawal[n] = 0

\* C14: a one-time withdrawal event reduces the targeted account before that
\* year's investment return is computed: with no other transactions the
\* return is annual_return * (balance - event amount) and the year ends at
\* (balance - event amount) * (1 + annual_return).
C14_EventBeforeReturn ==
    IsProjection =>
        \A i \in Rows : \A n \in Names(accounts) :
            C14_OnlyEventWithdrawal(i, n) =>
                LET reduced == C13_StartBalance(i, n) - results[i].event_amount IN
                /\ C13_IsProduct(results[i].return[n], reduced,
                                 AccountNamed(n).annual_return)
                /\ results[i].balance[n] = reduced + results[i].return[n]

\* what the program does instead: the return is earned on the whole balance
\* and the event is taken from the result
C14_EventAfterReturn ==
    IsProjection =>
        \A i \in Rows : \A n \in Names(accounts) :
            C14_OnlyEventWithdrawal(i, n) =>
                /\ C13_IsProduct(results[i].return[n], C13_StartBalance(i, n),
                                 AccountNamed(n).annual_return)
                /\ results[i].balance[n]
                     = C13_StartBalance(i, n) + results[i].return[n]
                         - results[i].event_amount

\* ------------------------------------------------------------------- C15


\* run_comprehensive_projection has returned its frame
C15_Returned == pc \in {"done", "analyzed"}

\* the rows a horizon of max_age allows
C15_FullLength == IF max_age < current_age THEN 0 ELSE max_age - current_age + 1

\* ages consecutive from current_age, year = 2026 + offset, no age above
\* max_age, never more rows than the horizon allows
C15_RowsInOrder ==
    /\ \A i \in Rows :
        /\ results[i].age = current_age + (i - 1)
        /\ results[i].year = 2026 + (i - 1)
        /\ results[i].age <= max_age
    /\ Len(results) <= C15_FullLength

\* the frame returned: full length unless the last row is depleted
C15_LengthAtReturn ==
    C15_Returned =>
        /\ (\A i \in Rows : ~results[i].portfolio_depleted) =>
                Len(results) = C15_FullLength
        /\ Len(results) < C15_FullLength =>
                Len(results) > 0 /\ results[Len(results)].portfolio_depleted
        /\ max_age < current_age => results = <<>>

\* C15: run_comprehensive_projection always terminates; the rows have
\* consecutive ages starting at current_age with year = 2026 + offset; there
\* are exactly max_age - current_age + 1 rows when no row is depleted and
\* fewer only when the last row is depleted; no row has age > max_age; and
\* there are no rows at all when max_age < current_age.
C15_TerminatesWithBoundedRows ==
    /\ [](IsProjection => C15_RowsInOrder /\ C15_LengthAtReturn)
    /\ (IsProjection ~> C15_Returned)

\* A run that ended early on a depleted row, one that ran the full horizon,
\* and one with no row at all are all reachable; this is the first.
C15_Witness ==
    /\ IsProjection
    /\ C15_Returned
    /\ Len(results) > 0
    /\ Len(results) < C15_FullLength
    /\ results[Len(results)].portfolio_depleted

C15_WitnessEmpty ==
    /\ IsProjection
    /\ C15_Returned
    /\ max_age < current_age
    /\ results = <<>>

C15_WitnessFull ==
    /\ IsProjection
    /\ C15_Returned
    /\ Len(results) = MaxYears + 1

\* ------------------------------------------------------------------- C16

\* x is a * (1 + inflation_rate) ** k rounded to the nearest unit
C16_IsCompounded(x, a, k) ==
    LET d == x * IntPow(RateDen, k) - a * IntPow(RateDen + inflation_rate, k)
    IN 2 * d <= IntPow(RateDen, k) /\ 2 * (-d) <= IntPow(RateDen, k)

\* y is x * (1 + inflation_rate), each of the two known to the nearest unit
C16_GrowsByInflation(x, y) ==
    LET d == y * RateDen - x * (RateDen + inflation_rate)
    IN 2 * d <= 2 * RateDen + inflation_rate /\ 2 * (-d) <= 2 * RateDen + inflation_rate

\* C16: in every row work_income is
\* current_work_income * (1 + inflation_rate) ** (age - current_age) when
\* age < work_end_age and exactly 0 otherwise; hence between two consecutive
\* working rows work income grows by the factor (1 + inflation_rate).
C16_WorkIncomeGrowth ==
    IsProjection =>
        /\ \A i \in Rows :
            IF results[i].age < work_end_age
            THEN C16_IsCompounded(results[i].work_income, current_work_income,
                                  results[i].age - current_age)
            ELSE results[i].work_income = 0
        /\ \A i \in Rows :
            (i + 1 \in Rows /\ results[i + 1].age < work_end_age) =>
                C16_GrowsByInflation(results[i].work_income, results[i + 1].work_income)

\* Two working years with a raise between them, then a year past work_end_age
\* without work income.
C16_Witness ==
    /\ IsProjection
    /\ inflation_rate > 0
    /\ \E i \in Rows :
        /\ i + 2 \in Rows
        /\ results[i].work_income > 0
        /\ results[i + 1].work_income > results[i].work_income
        /\ results[i + 2].age >= work_end_age
        /\ results[i + 2].work_income = 0

\* ------------------------------------------------------------------- C17

\* analyze_retirement_plan has returned
Analyzed == pc = "analyzed"

C17_SomeRowDepleted == \E i \in Rows : results[i].portfolio_depleted

\* the age of the first row flagged portfolio_depleted
C17_FirstDepletedAge ==
    LET first == CHOOSE i \in Rows :
                    /\ results[i].portfolio_depleted
                    /\ \A j \in 1..(i - 1) : ~results[j].portfolio_depleted
    IN results[first].age

C17_DepletionWarnings ==
    {k \in DOMAIN analysis.result.warnings :
        analysis.result.warnings[k].kind = "depletion"}

\* C17: the analyzer reports ON TRACK exactly when no row is flagged
\* portfolio_depleted or the first depleted row's age is >= target_age;
\* otherwise (first depleted age < target_age, or an empty projection) it
\* reports AT RISK, and for a depletion before the target it emits a warning
\* stating target_age - run_out_age years.
C17_StatusRule ==
    Analyzed =>
        LET target_age == analysis.target_age
            result == analysis.result
        IN IF results = <<>>
           THEN result.status = "AT RISK"
           ELSE IF ~C17_SomeRowDepleted \/ C17_FirstDepletedAge >= target_age
           THEN result.status = "ON TRACK" /\ C17_DepletionWarnings = {}
           ELSE /\ result.status = "AT RISK"
                /\ \E k \in C17_DepletionWarnings :
                    /\ result.warnings[k].run_out_age = C17_FirstDepletedAge
                    /\ result.warnings[k].years_before_target
                         = target_age - C17_FirstDepletedAge

\* A plan that runs dry before the target age was analyzed.
C17_Witness ==
    /\ Analyzed
    /\ C17_SomeRowDepleted
    /\ C17_FirstDepletedAge < analysis.target_age
    /\ analysis.result.status = "AT RISK"

\* A plan that runs dry in the target year itself was analyzed.
C17_WitnessAtTarget ==
    /\ Analyzed
    /\ C17_SomeRowDepleted
    /\ C17_FirstDepletedAge = analysis.target_age
    /\ analysis.result.status = "ON TRACK"

\* An empty projection was analyzed.
C17_WitnessEmpty ==
    /\ Analyzed
    /\ results = <<>>
    /\ analysis.result.status = "AT RISK"

\* ------------------------------------------------------------------- C18

\* rows with contribution_shortfall > 100 and work_income > 0
C18_WorkingShortfallRows ==
    {i \in Rows : results[i].contribution_shortfall > 100 /\ results[i].work_income > 0}

C18_ShortfallWarnings ==
    {k \in DOMAIN analysis.result.warnings :
        analysis.result.warnings[k].kind = "shortfall"}

C18_First(S) == CHOOSE i \in S : \A j \in S : i <= j

\* the warning is emitted exactly when some row has
\* contribution_shortfall > 100 and work_income > 0
C18_EmittedWhenWorkingShortfall ==
    (Analyzed /\ results # <<>>) =>
        (C18_ShortfallWarnings # {} <=> C18_WorkingShortfallRows # {})

\* C18: the contribution-shortfall warning is emitted exactly when some row
\* has contribution_shortfall > 100 and work_income > 0, and the first
\* year/age, the number of years and the total it reports are those of the
\* rows with contribution_shortfall > 100 and work_income > 0 only.
C18_ShortfallWarningWorkingRowsOnly ==
    (Analyzed /\ results # <<>>) =>
        /\ C18_ShortfallWarnings # {} <=> C18_WorkingShortfallRows # {}
        /\ \A k \in C18_ShortfallWarnings :
            LET w == analysis.result.warnings[k]
                first == results[C18_First(C18_WorkingShortfallRows)]
            IN /\ w.first_shortfall_year = first.year
               /\ w.first_shortfall_age = first.age
               /\ w.num_years = Cardinality(C18_WorkingShortfallRows)
               /\ w.total_shortfall
                    = SumOver([i \in C18_WorkingShortfallRows |->
                                  results[i].contribution_shortfall],
                              C18_WorkingShortfallRows)

\* ------------------------------------------------------------------- C19

C19_WorkingRows == {i \in Rows : results[i].work_income > 0}

C19_WorkingWithdrawals ==
    SumOver([i \in C19_WorkingRows |-> results[i].total_withdrawals], C19_WorkingRows)

C19_WithdrawalWarnings ==
    {k \in DOMAIN analysis.result.warnings :
        analysis.result.warnings[k].kind = "early_withdrawal"}

\* C19 as stated: the early-withdrawal warning is emitted exactly when the
\* sum of total_withdrawals over the rows with work_income > 0 exceeds 1000,
\* and the number of years it reports is the number of rows with
\* work_income > 0 and total_withdrawals > 0.
C19_YearsAreWithdrawalYears ==
    (Analyzed /\ results # <<>>) =>
        /\ C19_WithdrawalWarnings # {} <=> C19_WorkingWithdrawals > 1000
        /\ \A k \in C19_WithdrawalWarnings :
            analysis.result.warnings[k].num_years
                = Cardinality({i \in C19_WorkingRows : results[i].total_withdrawals > 0})

\* C19: the early-withdrawal warning is emitted exactly when the sum of
\* total_withdrawals over the rows with work_income > 0 exceeds 1000; the
\* amount it reports is that sum and the number of years it reports is the
\* number of rows with work_income > 0, whether or not anything was withdrawn
\* in them.
C19_YearsAreWorkingYears ==
    (Analyzed /\ results # <<>>) =>
        /\ C19_WithdrawalWarnings # {} <=> C19_WorkingWithdrawals > 1000
        /\ \A k \in C19_WithdrawalWarnings :
            /\ analysis.result.warnings[k].total_working_withdrawals
                 = C19_WorkingWithdrawals
            /\ analysis.result.warnings[k].num_years = Cardinality(C19_WorkingRows)

\* The warning was emitted for a plan with a working year in which nothing
\* was withdrawn.
C19_Witness ==
    /\ Analyzed
    /\ C19_WithdrawalWarnings # {}
    /\ \E i \in C19_WorkingRows : results[i].total_withdrawals = 0

\* ------------------------------------------------------------------- C20

C20_FlexWarnings ==
    {k \in DOMAIN analysis.result.warnings : analysis.result.warnings[k].kind = "flex"}

\* the mean flex_multiplier over all rows is below 0.8
C20_MeanMultiplierLow ==
    5 * SumOver([i \in Rows |-> results[i].flex_multiplier], Rows)
        < 4 * RateDen * Cardinality(Rows)

C20_ReducedRows == {i \in Rows : results[i].flex_multiplier < RateDen}

\* the average total_portfolio over the reduced rows is below 80% of initial
C20_AverageBelow(initial) ==
    5 * SumOver([i \in C20_ReducedRows |-> results[i].total_portfolio], C20_ReducedRows)
        < 4 * Cardinality(C20_ReducedRows) * initial

\* the plan's starting total balance
C20_StartingBalance ==
    SumOver([i \in DOMAIN accounts |-> accounts[i].balance], DOMAIN accounts)

\* C20 as stated: the flex-reduction warning is emitted exactly when the mean
\* flex_multiplier over all rows is below 0.8 and (the average total_portfolio
\* over the rows with flex_multiplier < 1 is below 80% of the plan's starting
\* total balance, or the status is AT RISK).
C20_AgainstStartingBalance ==
    (Analyzed /\ results # <<>>) =>
        (C20_FlexWarnings # {} <=>
            /\ C20_MeanMultiplierLow
            /\ \/ C20_AverageBelow(C20_StartingBalance)
               \/ analysis.result.status = "AT RISK")

\* C20: the flex-reduction warning is emitted exactly when the mean
\* flex_multiplier over all rows is below 0.8 and (the first row's
\* total_portfolio, i.e. the value at the end of the first simulated year, is
\* not positive, or the average total_portfolio over the rows with
\* flex_multiplier < 1 is below 80% of that first-row value, or the status is
\* AT RISK).
C20_AgainstFirstRow ==
    (Analyzed /\ results # <<>>) =>
        (C20_FlexWarnings # {} <=>
            /\ C20_MeanMultiplierLow
            /\ \/ results[1].total_portfolio <= 0
               \/ C20_AverageBelow(results[1].total_portfolio)
               \/ analysis.result.status = "AT RISK")

\* The warning was emitted for a plan that is ON TRACK: the portfolio fell
\* below 80% of its first-row value.
C20_Witness ==
    /\ Analyzed
    /\ C20_FlexWarnings # {}
    /\ analysis.result.status = "ON TRACK"
    /\ results[1].total_portfolio > 0

\* The mean multiplier was low and no warning was emitted.
C20_WitnessSilent ==
    /\ Analyzed
    /\ results # <<>>
    /\ C20_MeanMultiplierLow
    /\ C20_FlexWarnings = {}

\* ------------------------------------------------------------------- C21

\* the second of two runs on the same input objects has returned
C21_SecondRunReturned == pc = "done" /\ DOMAIN call = {"fn", "first_results"}

C22_EventOn(i, n) ==
    /\ \E e \in DOMAIN events : events[e].year = results[i].year
    /\ results[i].event_account = n

C22_WitnessDeposit ==
    /\ IsProjection
    /\ \E i \in Rows : \E n \in Names(accounts) :
        /\ C22_EventOn(i, n)
        /\ results[i].event_amount < 0
        /\ results[i].balance[n] > C13_PreReturnBalance(i, n) + results[i].return[n]

\* ------------------------------------------------------------------- C23

\* the events keyed to a calendar year, by position in the input list
C23_EventsOf(year) == {e \in DOMAIN events : events[e].year = year}

C23_FirstOf(year) ==
    events[CHOOSE e \in C23_EventsOf(year) : \A f \in C23_EventsOf(year) : e <= f]

\* what the events of the year took from account n
C23_EventChange(i, n) ==
    results[i].balance[n] - (C13_PreReturnBalance(i, n) + results[i].return[n])

\* C23: when several one-time events have the same calendar year only the
\* first in list order is applied and recorded (event_amount,
\* event_description, event_account are those of the first match and only its
\* amount changes a balance); if that first event names an account that does
\* not exist no balance changes that year, the event is still recorded, and
\* later same-year events are still skipped.
C23_FirstEventWins ==
    IsProjection =>
        \A i \in Rows :
            C23_EventsOf(results[i].year) # {} =>
                LET first == C23_FirstOf(results[i].year) IN
                /\ results[i].event_amount = first.amount
                /\ results[i].event_description = first.description
                /\ results[i].event_account = first.account_name
                /\ \A n \in Names(accounts) :
                    C23_EventChange(i, n)
                        = IF n = first.account_name THEN -first.amount ELSE 0

\* A year with two events on the same existing account: the first was
\* applied.
C23_Witness ==
    /\ IsProjection
    /\ \E i \in Rows :
        /\ Cardinality(C23_EventsOf(results[i].year)) > 1
        /\ results[i].event_account \in Names(accounts)
        /\ C23_EventChange(i, results[i].event_account) = -results[i].event_amount

\* A year with two events, the first against an account that does not exist:
\* it was recorded and no balance changed.
C23_WitnessAbsentAccount ==
    /\ IsProjection
    /\ \E i \in Rows :
        /\ Cardinality(C23_EventsOf(results[i].year)) > 1
        /\ results[i].event_account \notin Names(accounts)
        /\ results[i].event_amount # 0
        /\ \A n \in Names(accounts) : C23_EventChange(i, n) = 0

\* ------------------------------------------------------------------- C24

\* x is a / (divisor / 10) rounded to the nearest unit
C24_IsQuotient(x, a, divisor) ==
    LET d == x * divisor - a * 10 IN 2 * d <= divisor /\ 2 * (-d) <= divisor

\* the RMD C24 states for an account holding b after the year's contributions
C24_StatedRmd(rmd, n, age, b) ==
    IF \/ AccountNamed(n).account_type \notin {"401k", "traditional_ira"}
       \/ age < C9_StatedAge(2026 - current_age)
    THEN rmd = 0
    ELSE \E q \in {rmd, RoundDiv(b * 10, RMD_LIFETIME_TABLE[age])} :
            /\ C24_IsQuotient(q, b, RMD_LIFETIME_TABLE[age])
            /\ rmd = Min2(q, b)

\* what C24 says of the RMD step and of the row that records it
C24_RmdStep ==
    pc = "rmd" =>
        /\ \A n \in Names(accounts) :
            /\ C24_StatedRmd(loc'.rmds[n], n, loc.age, account_balances[n])
            /\ account_balances'[n] = account_balances[n] - loc'.rmds[n]
        /\ loc'.total_rmds = SumOver(loc'.rmds, Names(accounts))

C24_RowTotals ==
    IsProjection =>
        \A i \in Rows :
            LET r == results[i] IN
            /\ r.total_rmds = SumOver(r.rmd, Names(accounts))
            /\ r.surplus_deficit
                 = r.total_income + r.total_rmds
                     - (r.core_expenses + r.flex_expenses_actual + r.total_contributions)

\* C24: in every row an account's RMD is 0 when its type is not 401k or
\* traditional_ira or when age < the RMD starting age; otherwise it is
\* min(B / divisor(age), B) for B the balance after that year's
\* contributions; the RMD is subtracted from the account, total_rmds is the
\* sum of the per-account RMDs and surplus_deficit = total_income + total_rmds
\* - (core_expenses + flex_expenses_actual + total_contributions).
C24_RmdRule == [][C24_RmdStep]_vars /\ []C24_RowTotals

\* C24 for the years in which no balance is negative when RMDs are taken.
C24_RmdRuleSolvent ==
    /\ [][(pc = "rmd" /\ \E n \in Names(accounts) : account_balances[n] < 0)
            \/ C24_RmdStep]_vars
    /\ []C24_RowTotals

\* ------------------------------------------------------------------- C25

\* the sum of f over the accounts other than n
C25_SumOthers(f, n) == SumOver(f, Names(accounts) \ {n})

\* account m comes before account n in ascending priority, ties in list order
C25_Before(m, n) ==
    \E i, j \in DOMAIN accounts :
        /\ accounts[i].name = m
        /\ accounts[j].name = n
        /\ C11_Before(i, j)

\* what C25 says of the top-up step
C25_TopUpStep ==
    pc = "topup" =>
        LET names == Names(accounts)
            gain == [n \in names |-> loc'.contributions[n] - loc.contributions[n]]
            cw == loc'.contribution_withdrawals
            short == {n \in names : loc.planned[n] > loc'.contributions[n]}
        IN \* money only moves between accounts, and never into its own source
           /\ \A n \in names : gain[n] >= 0 /\ cw[n] >= 0
           /\ SumOver(gain, names) = SumOver(cw, names)
           /\ \A n \in names : gain[n] <= C25_SumOthers(cw, n)
           /\ \A n \in names : account_balances'[n] = account_balances[n] - cw[n]
           \* a source is drawn only once the sources before it are empty
           /\ \A m \in names :
                cw[m] > 0 =>
                    \E n \in names \ {m} :
                        /\ gain[n] > 0
                        /\ \A k \in names \ {m, n} :
                            C25_Before(k, m) => account_balances'[k] = 0
           \* a shortfall is left only when nothing is left to draw on
           /\ loc'.contribution_shortfall > 0 =>
                \A n \in short : \A m \in names \ {n} : account_balances'[m] = 0
           /\ Cardinality(names) = 1 =>
                /\ loc'.contribution_shortfall = loc.contribution_shortfall
                /\ gain = Zero(names)

\* C25: top-up never funds an account from itself and draws its sources in
\* ascending priority order: an account still short after the income
\* waterfall is funded only from other accounts, lowest priority number
\* first; the final contribution_shortfall is greater than 0 only if, for
\* every account left short, all other accounts had a zero balance when the
\* top-up ended; with a single account a shortfall is never reduced.
C25_TopUpFromOthersInOrder == [][C25_TopUpStep]_vars

\* C25 for the years in which no balance is negative when the top-up starts.
C25_TopUpSolvent ==
    [][(pc = "topup" /\ \E n \in Names(accounts) : account_balances[n] < 0)
        \/ C25_TopUpStep]_vars

\* A top-up took from the first-priority source and left the second alone.
C25_Witness ==
    /\ pc = "apply"
    /\ Len(accounts) = 3
    /\ loc.contribution_withdrawals["C"] > 0
    /\ loc.contribution_withdrawals["B"] = 0
    /\ account_balances["B"] > 0

\* ------------------------------------------------------------------- C26

\* the rows in which some account gave to another account's contribution
C26_TopUpRows ==
    {i \in Rows : \E n \in Names(accounts) : results[i].contribution_withdrawal[n] > 0}

\* C26: flex sacrifice strictly precedes portfolio-funded top-up: in every
\* row in which any account has a contribution withdrawal greater than 0,
\* flex_expenses_actual equals the floor
\* flex_expenses_full * (1 - max_flex_reduction); no contribution is funded
\* from another account while flex spending is above its floor.
C26_FlexFloorBeforeTopUp ==
    IsProjection =>
        \A i \in C26_TopUpRows :
            C13_IsProduct(results[i].flex_expenses_actual,
                          results[i].flex_expenses_full,
                          RateDen - max_flex_reduction)

\* A top-up row whose flex spending was cut below its full amount.
C26_Witness ==
    /\ IsProjection
    /\ \E i \in C26_TopUpRows :
        /\ results[i].flex_expenses_full > 0
        /\ results[i].flex_expenses_actual < results[i].flex_expenses_full
        /\ results[i].flex_expenses_actual > 0

\* ------------------------------------------------------------------- C27

\* R: the cash left after core expenses and flex at the floor it was set to
C27_R == loc.total_income - loc.core_expenses - loc'.flex_expenses_actual

\* the accounts with something planned this year
C27_Eligible == {n \in Names(accounts) : loc.planned[n] > 0}

\* x is a / b rounded to the nearest unit
C27_IsShare(x, a, b) ==
    LET d == x * b - a IN 2 * d <= b /\ 2 * (-d) <= b

\* something is planned and income cannot fund all of it even with flex at
\* its floor
C27_IncomeFallsShort ==
    /\ pc = "fund"
    /\ loc.total_planned > 0
    /\ C13_IsProduct(loc'.flex_expenses_actual, loc.flex_expenses_full,
                     RateDen - max_flex_reduction)
    /\ C27_R < loc.total_planned

\* R is split in proportion to the planned amounts and the rest is the shortfall
C27_SplitOfR ==
    /\ \A n \in C27_Eligible :
        C27_IsShare(loc'.contributions[n], C27_R * loc.planned[n], loc.total_planned)
    /\ LET d == SumOver(loc'.contributions, C27_Eligible) - C27_R
       IN 2 * d <= Cardinality(C27_Eligible) /\ 2 * (-d) <= Cardinality(C27_Eligible)
    /\ loc'.total_contributions = C27_R
    /\ loc'.contribution_shortfall = loc.total_planned - C27_R

\* nothing is contributed from income and everything planned is short
C27_NothingFromIncome ==
    /\ \A n \in Names(accounts) : loc'.contributions[n] = 0
    /\ loc'.total_contributions = 0
    /\ loc'.contribution_shortfall = loc.total_planned

\* C27 as stated: when income cannot fully fund contributions even with flex
\* at its floor, R = total_income - core_expenses
\* - flex_expenses_full * (1 - max_flex_reduction) is split across the
\* eligible accounts in proportion to their planned amounts: before any
\* top-up each receives R * planned_i / total_planned, the amounts sum to R,
\* and contribution_shortfall = total_planned - R.
C27_ProportionalSplit == [][C27_IncomeFallsShort => C27_SplitOfR]_vars

\* C27, amended: the split is made when R is greater than 0; when income is
\* below the planned contributions and R is 0 or less, nothing is
\* contributed from income and contribution_shortfall = total_planned.
C27_ProportionalSplitOfPositiveR ==
    [][C27_IncomeFallsShort =>
        /\ C27_R > 0 => C27_SplitOfR
        /\ (C27_R <= 0 /\ loc.total_income - loc.core_expenses < loc.total_planned)
              => C27_NothingFromIncome]_vars

\* Two accounts have just shared a positive R that is less than planned.
C27_Witness ==
    /\ pc = "topup"
    /\ Cardinality(C27_Eligible) = 2
    /\ loc.total_contributions > 0
    /\ loc.contribution_shortfall > 0
    /\ \A n \in C27_Eligible : loc.contributions[n] > 0
    /\ \E m, n \in C27_Eligible : loc.contributions[m] < loc.contributions[n]

\* Income was below core expenses and floor flex: nothing came from income.
C27_WitnessNegativeR ==
    /\ pc = "topup"
    /\ loc.total_planned > 0
    /\ loc.total_income - loc.core_expenses - loc.flex_expenses_actual < 0
    /\ loc.total_income - loc.core_expenses < loc.total_planned
    /\ loc.contribution_shortfall = loc.total_planned

\* ------------------------------------------------------------------- C28

\* the bounds C28 states, on the year that is about to be recorded
C28_Bounds ==
    /\ \A n \in Names(accounts) :
        /\ 0 <= loc.contributions[n]
        /\ loc.contributions[n] <= loc.planned[n]
    /\ loc.total_contributions >= 0
    /\ 0 <= loc.contribution_shortfall
    /\ loc.contribution_shortfall <= loc.total_planned

\* C28: in every emitted row each account's contribution satisfies
\* 0 <= contribution <= its eligible planned contribution for that year,
\* total_contributions >= 0, and 0 <= contribution_shortfall <= the year's
\* total eligible planned contributions; no waterfall case applies a negative
\* contribution to an account.
C28_ContributionBounds == pc = "record" => C28_Bounds

\* C28 for the years in which income covers core expenses and floor flex.
C28_ContributionBoundsCovered ==
    (pc = "record"
     /\ loc.total_income - loc.core_expenses - loc.flex_expenses_actual >= 0)
        => C28_Bounds

\* ------------------------------------------------------------------- C29

\* the part of row i's contributions that income paid for
C29_IncomeFunded(i) ==
    results[i].total_contributions
        - SumOver(results[i].contribution_withdrawal, Names(accounts))

\* max(0, core_expenses + flex_expenses_actual + income-funded contributions
\*        - total_income - total_rmds)
C29_CashGap(i) ==
    Max2(0, results[i].core_expenses + results[i].flex_expenses_actual
            + C29_IncomeFunded(i)
            - results[i].total_income - results[i].total_rmds)

\* C29: a contribution funded by withdrawing from another account is a pure
\* transfer that leaves the sum of all account balances unchanged, so in any
\* year the total deficit withdrawals never exceed the year's real cash gap
\* max(0, core_expenses + flex_expenses_actual + income-funded contributions
\* - total_income - total_rmds); the amount moved by top-up is not withdrawn
\* from the portfolio a second time through the deficit step.
C29_TopUpNotWithdrawnAgain ==
    IsProjection =>
        \A i \in Rows : results[i].total_withdrawals <= C29_CashGap(i)

\* C29 for the rows without a top-up.
C29_NoTopUpWithinCashGap ==
    IsProjection =>
        \A i \in Rows \ C26_TopUpRows :
            (\A n \in Names(accounts) : results[i].withdrawal[n] >= 0)
                => results[i].total_withdrawals <= C29_CashGap(i)

\* ------------------------------------------------------------------- C30

\* a non-empty projection has been analyzed
C30_AnalyzedRows == Analyzed /\ results # <<>>

\* status is ON TRACK if and only if cushion_years >= 0
C30_Agree ==
    analysis.result.status = "ON TRACK" <=> analysis.result.cushion_years >= 0

\* C30: the analyzer's status and cushion agree for every non-empty
\* projection and every target_age: status is ON TRACK if and only if
\* cushion_years >= 0; an ON TRACK plan never reports a negative cushion,
\* including when the projection ends at max_age without depletion before
\* reaching target_age.
C30_StatusAgreesWithCushion == C30_AnalyzedRows => C30_Agree

\* C30 for the target ages the projection reached or ran dry before.
C30_StatusAgreesWithinHorizon ==
    (/\ C30_AnalyzedRows
     /\ \/ C17_SomeRowDepleted
        \/ analysis.target_age <= results[Len(results)].age)
        => C30_Agree

====
